---- MODULE Spec2Model ----
(***************************************************************************)
(* A model of the meetup bot: the user directory (get_or_create_user), the *)
(* event registry (join / leave / cancel and its queries), the payment     *)
(* bookkeeping, the dispatcher of conversation turns and the hourly        *)
(* reminder job.  The persisted tables are modelled as the rows they hold; *)
(* every AsyncSession is a private snapshot that is written back by its    *)
(* commit.                                                                 *)
(***************************************************************************)
EXTENDS Integers, Sequences, FiniteSets, TLC

\* ------------------------------------------------------------------ bounds
\* telegram ids are 1..MaxTgId
MaxTgId == 2
\* get_or_create_user calls that may be in flight at the same time
NumCalls == 2
\* the largest max_participants an event is created with
MaxCap == 2
\* users that click "join" (telegram ids 1..NumJoiners)
NumJoiners == 3
\* users that click "join" on an event that may have a price
NumPayers == 2
\* the events the registry's queries run over
NumEvents == 2
\* event dates and the clock are days 0..MaxDate
MaxDate == 2

\* ADMIN_ID = int(os.getenv("ADMIN_ID", 0)); the model's administrator
ADMIN_ID == 1

\* Python's None, for the nullable columns and for "no FSM state"
None == "None"
\* None of a nullable integer column (max_participants, price)
NullInt == -1

VARIABLES
    users,          \* table users: the sequence of persisted rows (row id = index)
    calls,          \* get_or_create_user calls in flight: call -> its position
    participants,   \* table event_participants: event id -> set of user ids
    events,         \* table events: event id -> row
    joins,          \* join turns in flight: telegram id -> its position
    payments,       \* table payments: the sequence of persisted rows
    messages,       \* table messages: the sequence of persisted rows
    fsm,            \* MemoryStorage: telegram id -> [state, data]
    broadcast_data, \* bot.broadcast_data: the text stored under ADMIN_ID, or None
    broadcasts,     \* table broadcast_messages: the sequence of persisted rows
    last_activity,  \* bot.last_activity (its keys)
    turn,           \* the update handled last: who, what, by which handler, the answers
    trail,          \* the outcomes a user saw while following a scripted sequence of inputs
    now,            \* datetime.utcnow(), in days
    sweep,          \* the run of send_event_notifications in flight: its position
    reminders       \* the reminders delivered so far: event id -> recipient -> how many

vars == <<users, calls, participants, events, joins, payments, messages,
          fsm, broadcast_data, broadcasts, last_activity, turn, trail,
                   now, sweep, reminders>>

TgIds == 1..MaxTgId
CallIds == 1..NumCalls

\* ------------------------------------------------------- the users table
\* User(telegram_id=..., registration_complete=False): the column defaults
\* fill language with "en" and leave the nullable columns None.
NewUser(tid) ==
    [telegram_id |-> tid, language |-> "en", registration_complete |-> FALSE,
     real_name |-> None, phone_number |-> None, country |-> None, about |-> None]

\* select(User).where(User.telegram_id == tid): the ids of the matching rows
RowsOf(tid) == {i \in DOMAIN users : users[i].telegram_id = tid}

\* scalar_one_or_none() over RowsOf: the row id, or 0 for None
FindUser(tid) == IF RowsOf(tid) = {} THEN 0 ELSE CHOOSE i \in RowsOf(tid) : TRUE

\* A mutant of the schema: telegram_id without unique=True.
NoUniqueTelegramId(tid) == FALSE
\* telegram_id: mapped_column(BigInteger, unique=True): an INSERT of a second
\* row with the same telegram_id fails with an IntegrityError.
UniqueViolation(tid) == RowsOf(tid) # {}

IdleCall == [pc |-> "idle", tid |-> 0, result |-> 0]

\* A handler enters get_or_create_user(session, telegram_user).
GocStart(c, tid) ==
    /\ calls[c].pc = "idle"
    /\ calls' = [calls EXCEPT ![c] = [pc |-> "lookup", tid |-> tid, result |-> 0]]
    /\ UNCHANGED <<users, participants, events, joins, payments, messages,
                   fsm, broadcast_data, broadcasts, last_activity, turn, trail,
                   now, sweep, reminders>>

\* await session.execute(select(User)...); user = result.scalar_one_or_none()
\* An existing row is returned at once; otherwise the call goes on to insert.
GocLookup(c) ==
    /\ calls[c].pc = "lookup"
    /\ LET found == FindUser(calls[c].tid)
       IN calls' = [calls EXCEPT ![c] =
                      IF found # 0
                      THEN [@ EXCEPT !.pc = "returned", !.result = found]
                      ELSE [@ EXCEPT !.pc = "insert"]]
    /\ UNCHANGED <<users, participants, events, joins, payments, messages,
                   fsm, broadcast_data, broadcasts, last_activity, turn, trail,
                   now, sweep, reminders>>

\* session.add(user); await session.commit().  A uniqueness conflict raises;
\* the except clause rolls back and re-raises, so the call ends in an error.
GocInsert(c) ==
    /\ calls[c].pc = "insert"
    /\ IF UniqueViolation(calls[c].tid)
       THEN /\ calls' = [calls EXCEPT ![c] = [@ EXCEPT !.pc = "raised"]]
            /\ UNCHANGED users
       ELSE /\ Len(users) < MaxTgId + NumCalls
            /\ users' = Append(users, NewUser(calls[c].tid))
            /\ calls' = [calls EXCEPT ![c] =
                           [@ EXCEPT !.pc = "returned", !.result = Len(users) + 1]]
    /\ UNCHANGED <<participants, events, joins, payments, messages,
                   fsm, broadcast_data, broadcasts, last_activity, turn, trail,
                   now, sweep, reminders>>

\* The caller has its answer (a row or the exception); the call slot is free again.
GocEnd(c) ==
    /\ calls[c].pc \in {"returned", "raised"}
    /\ calls' = [calls EXCEPT ![c] = IdleCall]
    /\ UNCHANGED <<users, participants, events, joins, payments, messages,
                   fsm, broadcast_data, broadcasts, last_activity, turn, trail,
                   now, sweep, reminders>>

\* User.update_language: self.language = language; await session.commit()
UpdateLanguage(tid, language) ==
    /\ FindUser(tid) # 0
    /\ users[FindUser(tid)].language # language
    /\ users' = [users EXCEPT ![FindUser(tid)].language = language]
    /\ UNCHANGED <<calls, participants, events, joins, payments, messages,
                   fsm, broadcast_data, broadcasts, last_activity, turn, trail,
                   now, sweep, reminders>>

\* What `turn` records of an update: the sender, the kind of update, its text
\* or callback data, the handler that took it and the answers it produced
\* (for a webhook delivery also the intent id and whether it was well signed,
\* for a cancel request the event id of its callback data, for a query of the
\* registry the rows it returned, for a broadcast the telegram ids a send was
\* attempted to and the success count of the report).
Turn(user, kind, data, handler, answers) ==
    [user |-> user, kind |-> kind, data |-> data, handler |-> handler,
     answers |-> answers, intent |-> 0, signed |-> FALSE, event |-> 0,
     rows |-> << >>, to |-> {}, count |-> 0]
NoTurn == Turn(0, None, None, None, {})

\* ------------------------------------------------------ the event registry
EventIds == {1}

\* Event(...): a new row of table events; is_active defaults to True and
\* notification_sent to False.  creator_id is a row id of table users,
\* event_date is in days.
NewEvent(creator_id, max_participants, price, event_date) ==
    [creator_id |-> creator_id, max_participants |-> max_participants, price |-> price,
     event_date |-> event_date, is_active |-> TRUE, notification_sent |-> FALSE]

\* No run of the reminder job is in flight.
IdleSweep == [pc |-> "idle", due |-> {}]
Joiners == 1..NumJoiners
Payers == 1..NumPayers
IdleJoin == [pc |-> "idle", event |-> 0, roster |-> {}, result |-> None, late |-> FALSE]

\* Python's truth value of an Optional[int]: None and 0 are false.
Truthy(n) == n # NullInt /\ n # 0

\* join_event: event.max_participants and len(event.participants) >= event.max_participants
EventFull(roster, max_participants) ==
    Truthy(max_participants) /\ Cardinality(roster) >= max_participants

\* join_event's return value on the roster the session sees: False (Full) when
\* the capacity test fires, else True (Admitted), member or not.
JoinResult(roster, max_participants) ==
    IF EventFull(roster, max_participants) THEN "Full" ELSE "Admitted"

\* join_event_callback, up to the event: get_or_create_user and
\* session.get(Event, event_id) in the turn's own session.  `late` remembers
\* whether the event was already at capacity when the turn began.
JoinBegin(u, e) ==
    /\ joins[u].pc = "idle"
    /\ FindUser(u) # 0
    /\ joins' = [joins EXCEPT ![u] =
                   [pc |-> "got_event", event |-> e, roster |-> {}, result |-> None,
                    late |-> EventFull(participants[e], events[e].max_participants)]]
    /\ turn' = Turn(u, "callback", "join_event", "join_event_callback",
                    {})
    /\ UNCHANGED <<users, calls, participants, events, payments, messages,
                   fsm, broadcast_data, broadcasts, last_activity, trail,
                   now, sweep, reminders>>

\* A mutant of the handler: the payment branch is never taken.
NeedsPaymentNever(price, member) == FALSE
\* join_event_callback: event.price and user not in event.participants
NeedsPayment(price, member) == Truthy(price) /\ ~member

\* join_event up to its await: the session loads event.participants, tests the
\* capacity on what it loaded, and appends the user to its own copy.  A paid
\* event sends a user who is not a participant to the payment branch instead.
JoinCheck(u) ==
    /\ joins[u].pc = "got_event"
    /\ LET e == joins[u].event
           roster == participants[e]
           me == FindUser(u)
       IN joins' = [joins EXCEPT ![u] =
              IF NeedsPayment(events[e].price, me \in roster)
              THEN [@ EXCEPT !.pc = "payment", !.roster = roster]
              ELSE IF EventFull(roster, events[e].max_participants)
              THEN [@ EXCEPT !.pc = "done", !.roster = roster, !.result = "Full"]
              ELSE IF me \in roster
              THEN [@ EXCEPT !.pc = "done", !.roster = roster, !.result = "Admitted"]
              ELSE [@ EXCEPT !.pc = "commit", !.roster = roster \cup {me}]]
    /\ turn' = Turn(u, "callback", "join_event", "join_event_callback",
                    {})
    /\ UNCHANGED <<users, calls, participants, events, payments, messages,
                   fsm, broadcast_data, broadcasts, last_activity, trail,
                   now, sweep, reminders>>

\* await session.commit(): the unit of work inserts the one new row
\* (user_id, event_id) into event_participants; join_event returns True.
JoinCommit(u) ==
    /\ joins[u].pc = "commit"
    /\ participants' = [participants EXCEPT ![joins[u].event] = @ \cup {FindUser(u)}]
    /\ joins' = [joins EXCEPT ![u] = [@ EXCEPT !.pc = "done", !.result = "Admitted"]]
    /\ turn' = Turn(u, "callback", "join_event", "join_event_callback",
                    {})
    /\ UNCHANGED <<users, calls, events, payments, messages,
                   fsm, broadcast_data, broadcasts, last_activity, trail,
                   now, sweep, reminders>>

\* The handler's last answer (event_joined, event_full, the payment link or
\* payment_error) and the turn is over.
JoinEnd(u) ==
    /\ joins[u].pc = "done"
    /\ joins' = [joins EXCEPT ![u] = IdleJoin]
    /\ turn' = Turn(u, "callback", "join_event", "join_event_callback",
                    CASE joins[u].result = "Full" -> {"event_full"}
                      [] joins[u].result = "Admitted" -> {"event_joined"}
                      [] joins[u].result = "PaymentRequested" -> {"payment_link"}
                      [] OTHER -> {"payment_error"})
    /\ UNCHANGED <<users, calls, participants, events, payments, messages,
                   fsm, broadcast_data, broadcasts, last_activity, trail,
                   now, sweep, reminders>>


\* ------------------------------------------------------------- payments
\* the payments one run creates
MaxPayments == 2
IntentIds == 1..MaxPayments

\* select(Payment).where(Payment.stripe_payment_id == id); scalar_one_or_none():
\* the row id, or 0 for None (the gateway issues every intent id once).
FindPayment(intent) ==
    IF \E i \in DOMAIN payments : payments[i].stripe_payment_id = intent
    THEN CHOOSE i \in DOMAIN payments : payments[i].stripe_payment_id = intent
    ELSE 0

\* create_payment: a row with status "pending" for the intent the gateway issued
CreatedPayment(intent, user, event) ==
    [stripe_payment_id |-> intent, status |-> "pending", user_id |-> user, event_id |-> event]

\* update_payment_status: payment.status = status, whatever it was before
PaymentsAfterUpdate(intent, status) ==
    IF FindPayment(intent) = 0 THEN payments
    ELSE [payments EXCEPT ![FindPayment(intent)].status = status]

\* join_event on the persisted roster, as one atomic call: the roster after it
RosterAfterJoin(roster, max_participants, user) ==
    IF EventFull(roster, max_participants) THEN roster ELSE roster \cup {user}

\* A mutant of leave_event: the row of event_participants is kept.
RosterAfterLeaveKeeps(roster, user) == roster
\* leave_event: remove the user if present
RosterAfterLeave(roster, user) == roster \ {user}

\* stripe_webhook's branch for "payment_intent.succeeded": update_payment_status
\* (..., "succeeded"), then, for a payment that exists, join_event(payment.event,
\* payment.user) and the payment_success message to the payer.
ParticipantsAfterSucceeded(intent) ==
    IF FindPayment(intent) = 0 THEN participants
    ELSE LET p == payments[FindPayment(intent)]
         IN [participants EXCEPT ![p.event_id] =
                RosterAfterJoin(@, events[p.event_id].max_participants, p.user_id)]

\* ------------------------------------- the registry and the payments, call by call
\* The two users of the scripted sequence "A joins, B joins, A leaves, B joins".
ScriptA == 1
ScriptB == 2
\* What the monitor `trail` expects as the k-th call of that sequence; the
\* sequence starts on an empty event with max_participants = 1.
ScriptCall(k, op, u, roster, max_participants) ==
    CASE k = 1 -> op = "join" /\ u = ScriptA /\ roster = {} /\ max_participants = 1
      [] k = 2 -> op = "join" /\ u = ScriptB
      [] k = 3 -> op = "leave" /\ u = ScriptA
      [] k = 4 -> op = "join" /\ u = ScriptB
      [] OTHER -> FALSE
\* The monitor: while the calls follow the sequence, the outcome of each call
\* and the number of participants after it; reset by any other call.
ScriptAfter(op, u, e, outcome, rosterAfter) ==
    LET k == Len(trail[ScriptA])
        seen == <<outcome, Cardinality(rosterAfter)>>
    IN IF ScriptCall(k + 1, op, u, participants[e], events[e].max_participants)
       THEN [trail EXCEPT ![ScriptA] = Append(@, seen)]
       ELSE IF ScriptCall(1, op, u, participants[e], events[e].max_participants)
       THEN [trail EXCEPT ![ScriptA] = <<seen>>]
       ELSE [trail EXCEPT ![ScriptA] = << >>]

\* join_event(session, event, user)
ApiJoin(u, e) ==
    /\ participants' = [participants EXCEPT ![e] =
                           RosterAfterJoin(@, events[e].max_participants, u)]
    /\ turn' = [Turn(u, "api", JoinResult(participants[e], events[e].max_participants),
                     "join_event", {}) EXCEPT !.event = e]
    /\ trail' = ScriptAfter("join", u, e,
                            JoinResult(participants[e], events[e].max_participants),
                            RosterAfterJoin(participants[e], events[e].max_participants, u))
    /\ UNCHANGED <<users, calls, events, joins, payments, messages,
                   fsm, broadcast_data, broadcasts, last_activity,
                   now, sweep, reminders>>

\* leave_event(session, event, user)
ApiLeave(u, e) ==
    /\ participants' = [participants EXCEPT ![e] = RosterAfterLeave(@, u)]
    /\ turn' = [Turn(u, "api", None, "leave_event", {}) EXCEPT !.event = e]
    /\ trail' = ScriptAfter("leave", u, e, "Left", RosterAfterLeave(participants[e], u))
    /\ UNCHANGED <<users, calls, events, joins, payments, messages,
                   fsm, broadcast_data, broadcasts, last_activity,
                   now, sweep, reminders>>

\* create_payment(session, user, event, stripe_payment_id, amount)
ApiCreatePayment(u, e) ==
    /\ Len(payments) < MaxPayments
    /\ payments' = Append(payments, CreatedPayment(Len(payments) + 1, u, e))
    /\ turn' = Turn(u, "api", None, "create_payment", {})
    /\ UNCHANGED <<users, calls, participants, events, joins, messages,
                   fsm, broadcast_data, broadcasts, last_activity, trail,
                   now, sweep, reminders>>

\* The payment confirmation: the succeeded branch of stripe_webhook.
ApiPaymentSucceeded(intent) ==
    /\ payments' = PaymentsAfterUpdate(intent, "succeeded")
    /\ participants' = ParticipantsAfterSucceeded(intent)
    /\ turn' = [Turn(0, "api", None, "payment_succeeded",
                     IF FindPayment(intent) = 0 THEN {} ELSE {"payment_success"})
                  EXCEPT !.intent = intent]
    /\ trail' = [trail EXCEPT ![ScriptA] = << >>]
    /\ UNCHANGED <<users, calls, events, joins, messages,
                   fsm, broadcast_data, broadcasts, last_activity,
                   now, sweep, reminders>>

\* ------------------------------------------------ paid joins and the webhook
\* price=4900 of the imported event ("$49.00 in cents")
Price == 4900

\* A mutant of the paid branch: the row is persisted before the gateway answers.
PaymentsAfterIntentEager(gatewayOk, user, event) ==
    Append(payments, CreatedPayment(Len(payments) + 1, user, event))
\* create_payment_intent, then create_payment: the ValueError of a failed
\* gateway call leaves the try block before create_payment is reached.
PaymentsAfterIntent(gatewayOk, user, event) ==
    IF gatewayOk THEN Append(payments, CreatedPayment(Len(payments) + 1, user, event))
    ELSE payments

\* The paid branch of join_event_callback: create_payment_intent asks the
\* gateway; on success create_payment persists the pending row and the user
\* gets the payment link, on a ValueError only the payment_error answer.
JoinPayment(u, gatewayOk) ==
    /\ joins[u].pc = "payment"
    /\ gatewayOk => Len(payments) < MaxPayments
    /\ payments' = PaymentsAfterIntent(gatewayOk, FindUser(u), joins[u].event)
    /\ joins' = [joins EXCEPT ![u] =
                   [@ EXCEPT !.pc = "done",
                             !.result = IF gatewayOk THEN "PaymentRequested"
                                        ELSE "PaymentError"]]
    /\ turn' = Turn(u, "callback", "join_event", "join_event_callback", {})
    /\ UNCHANGED <<users, calls, participants, events, messages,
                   fsm, broadcast_data, broadcasts, last_activity, trail,
                   now, sweep, reminders>>

\* leave_event_callback: leave_event in the turn's session, then event_left
LeaveTurn(u, e) ==
    /\ joins[u].pc = "idle"
    /\ FindUser(u) # 0
    /\ participants' = [participants EXCEPT ![e] = RosterAfterLeave(@, FindUser(u))]
    /\ turn' = Turn(u, "callback", "leave_event", "leave_event_callback", {"event_left"})
    /\ UNCHANGED <<users, calls, events, joins, payments, messages,
                   fsm, broadcast_data, broadcasts, last_activity, trail,
                   now, sweep, reminders>>

\* from payments import create_payment_intent, format_price: the names of
\* payments.py that bot.py can call
BotPaymentNames == {"create_payment_intent", "format_price"}

\* payments.verify_webhook_signature: True when construct_event accepts the
\* signature header for the payload, False when it raises
verify_webhook_signature(signed) == signed

\* A mutant of the handler: the payload is trusted without any check.
WebhookOutcomeUnchecked(hasData, signed, evType) ==
    IF ~hasData THEN "no_data"
    ELSE IF evType = "payment_intent.succeeded" THEN "succeeded"
    ELSE "ignored"
\* stripe_webhook up to its branch on the event type: no web_app_data returns;
\* the call of verify_webhook_signature looks the name up in bot.py's globals
\* and a NameError lands in the handler's except clause, which logs and
\* returns; a bad signature returns; only "payment_intent.succeeded" is acted on.
WebhookOutcome(hasData, signed, evType) ==
    IF ~hasData THEN "no_data"
    ELSE IF "verify_webhook_signature" \notin BotPaymentNames THEN "error_logged"
    ELSE IF ~verify_webhook_signature(signed) THEN "bad_signature"
    ELSE IF evType = "payment_intent.succeeded" THEN "succeeded"
    ELSE "ignored"

WebhookTypes == {"payment_intent.succeeded", "payment_intent.payment_failed"}

\* stripe_webhook(message, session), handed one delivery
StripeWebhook(hasData, signed, evType, intent) ==
    LET acted == WebhookOutcome(hasData, signed, evType) = "succeeded"
    IN /\ payments' = IF acted THEN PaymentsAfterUpdate(intent, "succeeded") ELSE payments
       /\ participants' = IF acted THEN ParticipantsAfterSucceeded(intent) ELSE participants
       /\ turn' = [Turn(0, IF hasData THEN "webhook" ELSE "no_web_app_data", evType,
                        "stripe_webhook",
                        IF acted /\ FindPayment(intent) # 0 THEN {"payment_success"} ELSE {})
                     EXCEPT !.intent = intent, !.signed = signed]
       /\ UNCHANGED <<users, calls, events, joins, messages,
                      fsm, broadcast_data, broadcasts, last_activity, trail,
                   now, sweep, reminders>>

\* ------------------------------------------------------ cancelling an event
\* an event id no row of table events has: session.get(Event, id) is None
NoSuchEvent == 0
\* the event ids a callback's data may carry
CallbackEventIds == EventIds \cup {NoSuchEvent}

\* A mutant of the handler: any user may cancel.
MayCancelAnyone(event, user) == TRUE
\* cancel_event_callback: not (event.creator_id != user.id)
MayCancel(event, user) == event.creator_id = user

\* A mutant of cancel_event: the reminder flag is written as well.
EventAfterCancelAndMark(event) ==
    [event EXCEPT !.is_active = FALSE, !.notification_sent = TRUE]
\* cancel_event: event.is_active = False
EventAfterCancel(event) == [event EXCEPT !.is_active = FALSE]

\* cancel_event_callback: event_not_found unless the event exists and the
\* sender's row is its creator, else cancel_event and the cancelled notice.
CancelTurn(u, e) ==
    /\ joins[u].pc = "idle"
    /\ FindUser(u) # 0
    /\ IF e \in EventIds /\ MayCancel(events[e], FindUser(u))
       THEN /\ events' = [events EXCEPT ![e] = EventAfterCancel(@)]
            /\ turn' = [Turn(u, "callback", "cancel_event", "cancel_event_callback",
                             {"event_cancelled"}) EXCEPT !.event = e]
       ELSE /\ events' = events
            /\ turn' = [Turn(u, "callback", "cancel_event", "cancel_event_callback",
                             {"event_not_found"}) EXCEPT !.event = e]
    /\ UNCHANGED <<users, calls, participants, joins, payments, messages,
                   fsm, broadcast_data, broadcasts, last_activity, trail,
                   now, sweep, reminders>>

\* ------------------------------------------------ the registry's queries
QueryEventIds == 1..NumEvents
Dates == 0..MaxDate

\* A mutant of the filter: an event that starts right now counts as upcoming.
IsUpcomingInclusive(event, t) == event.event_date >= t /\ event.is_active
\* get_upcoming_events: where(Event.event_date > now, Event.is_active == True)
IsUpcoming(event, t) == event.event_date > t /\ event.is_active
\* get_past_events: where(and_(Event.event_date < current_date, Event.is_active == True))
IsPast(event, t) == event.event_date < t /\ event.is_active

\* order_by(Event.event_date): the rows of S in an order of ascending date;
\* the order among rows of equal date is the database's choice.
AscendingRows(S) ==
    {r \in [1..Cardinality(S) -> S] :
        \A i, j \in 1..Cardinality(S) :
            i < j => (r[i] # r[j] /\ events[r[i]].event_date <= events[r[j]].event_date)}
\* order_by(Event.event_date.desc())
DescendingRows(S) ==
    {r \in [1..Cardinality(S) -> S] :
        \A i, j \in 1..Cardinality(S) :
            i < j => (r[i] # r[j] /\ events[r[i]].event_date >= events[r[j]].event_date)}

\* get_upcoming_events(session): one select, nothing written
get_upcoming_events ==
    /\ \E r \in AscendingRows({e \in DOMAIN events : IsUpcoming(events[e], now)}) :
          turn' = [Turn(0, "query", None, "get_upcoming_events", {}) EXCEPT !.rows = r]
    /\ UNCHANGED <<users, calls, participants, events, joins, payments, messages,
                   fsm, broadcast_data, broadcasts, last_activity, trail,
                   now, sweep, reminders>>

\* timedelta(days=1), in days
Horizon == 1

\* get_events_for_notification: event_date.between(now, one_day_from_now),
\* notification_sent == False, is_active == True
DueForNotification(event, t) ==
    /\ event.event_date >= t /\ event.event_date <= t + Horizon
    /\ ~event.notification_sent
    /\ event.is_active

\* result.scalars().all() without order_by: the rows of S in the order the
\* database returns them
AnyRows(S) ==
    {r \in [1..Cardinality(S) -> S] :
        \A i, j \in 1..Cardinality(S) : i < j => r[i] # r[j]}

\* get_events_for_notification(session): one select, nothing written
get_events_for_notification ==
    /\ \E r \in AnyRows({e \in DOMAIN events : DueForNotification(events[e], now)}) :
          turn' = [Turn(0, "query", None, "get_events_for_notification", {})
                     EXCEPT !.rows = r]
    /\ UNCHANGED <<users, calls, participants, events, joins, payments, messages,
                   fsm, broadcast_data, broadcasts, last_activity, trail,
                   now, sweep, reminders>>

\* get_past_events(session): one select, nothing written
get_past_events ==
    /\ \E r \in DescendingRows({e \in DOMAIN events : IsPast(events[e], now)}) :
          turn' = [Turn(0, "query", None, "get_past_events", {}) EXCEPT !.rows = r]
    /\ UNCHANGED <<users, calls, participants, events, joins, payments, messages,
                   fsm, broadcast_data, broadcasts, last_activity, trail,
                   now, sweep, reminders>>

\* ------------------------------------------------ the reminder job
\* A mutant of mark_notification_sent: the row is written back as the job
\* selected it (active), not only the flag.
EventAfterMarkWritesRow(event) ==
    [event EXCEPT !.notification_sent = TRUE, !.is_active = TRUE]
\* mark_notification_sent: event.notification_sent = True; the commit updates
\* the one column that changed.
EventAfterMark(event) == [event EXCEPT !.notification_sent = TRUE]

\* The job starts (CronTrigger(hour='*'); the scheduler runs one instance of a
\* job at a time) and selects the events that are due.
SweepStart ==
    /\ sweep.pc = "idle"
    /\ sweep' = [pc |-> "sending",
                 due |-> {e \in EventIds : DueForNotification(events[e], now)}]
    /\ turn' = Turn(0, "job", None, "send_event_notifications", {})
    /\ UNCHANGED <<users, calls, participants, events, joins, payments, messages,
                   fsm, broadcast_data, broadcasts, last_activity, trail,
                   now, reminders>>

\* How many reminders of one pass over an event reach recipient r: the
\* creator's message if it was delivered, and the participants' message if r
\* is a participant and it was delivered.
RemindersTo(r, event, creatorOk, delivered) ==
    (IF r = event.creator_id /\ creatorOk THEN 1 ELSE 0)
      + (IF r \in delivered THEN 1 ELSE 0)

\* The loop body for one selected event: bot.send_message to the creator and
\* to every participant, each in its own try (a failed send is printed and
\* skipped), then mark_notification_sent.
SweepEvent(e, creatorOk, delivered) ==
    /\ sweep.pc = "sending"
    /\ e \in sweep.due
    /\ delivered \subseteq participants[e]
    /\ reminders' = [reminders EXCEPT ![e] =
                       [r \in DOMAIN @ |-> @[r] + RemindersTo(r, events[e], creatorOk, delivered)]]
    /\ events' = [events EXCEPT ![e] = EventAfterMark(@)]
    /\ sweep' = [sweep EXCEPT !.due = @ \ {e}]
    /\ turn' = [Turn(0, "job", None, "send_event_notifications", {"reminder"})
                  EXCEPT !.event = e]
    /\ UNCHANGED <<users, calls, participants, joins, payments, messages,
                   fsm, broadcast_data, broadcasts, last_activity, trail, now>>

\* The loop is over.
SweepEnd ==
    /\ sweep.pc = "sending"
    /\ sweep.due = {}
    /\ sweep' = IdleSweep
    /\ turn' = Turn(0, "job", None, "send_event_notifications", {})
    /\ UNCHANGED <<users, calls, participants, events, joins, payments, messages,
                   fsm, broadcast_data, broadcasts, last_activity, trail,
                   now, reminders>>

\* The clock reaches the next day (the job runs every hour in between).
Tick ==
    /\ now < MaxDate
    /\ now' = now + 1
    /\ UNCHANGED <<users, calls, participants, events, joins, payments, messages,
                   fsm, broadcast_data, broadcasts, last_activity, turn, trail,
                   sweep, reminders>>

\* ------------------------------------------------ the conversation turns
\* the Message rows one run persists
MaxMessages == 2

\* The users whose turns are followed: one who is not the administrator.
Visitors == {2}

\* The texts a user sends: commands, the word "help", a name of two letters
\* and a text of one letter.
Texts == {"/start", "/help", "help", "/skip", "/cancel", "events", "Al", "x"}
\* len(message.text) of each of them
TextLen(t) == IF t = "x" THEN 1 ELSE IF t = "Al" THEN 2 ELSE 5
\* the texts that hold one of the keywords of handle_user_message
KeywordTexts == Texts \cap {"events"}
\* the phone number of a shared contact
Phone == "+1"

\* A message update: a text, or a shared contact (whose text is None).
TextMessage(t) == [kind |-> "text", text |-> t, contact |-> None]
ContactMessage == [kind |-> "contact", text |-> None, contact |-> Phone]
Messages == {TextMessage(t) : t \in Texts} \cup {ContactMessage}

\* The FSM storage of a user with no session: no state, no data (a key that
\* is absent reads as None; NullInt stands for None where integers are kept).
EmptyData ==
    [language |-> None, event_type |-> None, theme |-> None, difficulty_level |-> None,
     music_genre |-> None, max_teams |-> NullInt, team_size |-> NullInt]
NoSession == [state |-> None, data |-> EmptyData]

\* Command("name") / CommandStart(): the text is that command
IsCommand(m, name) == m.kind = "text" /\ m.text = name

\* The message observer of user_router: the handlers in the order bot.py
\* registers them, the first whose filter passes takes the message; before
\* them the message handlers of admin_router, which filter on /admin and on
\* /import_meetupshare (no user sends the latter).  After handle_user_message, whose filter is
\* F.text, only a message without text can reach a later handler: those of the
\* event-creation states.
RouteMessage(m, state) ==
    IF IsCommand(m, "/admin") THEN "admin_panel"
    ELSE IF IsCommand(m, "/start") THEN "cmd_start"
    ELSE IF IsCommand(m, "/help") THEN "cmd_help"
    ELSE IF m.kind = "text" /\ m.text \in {"help"} THEN "text_help"
    ELSE IF state = "waiting_for_name" THEN "process_name"
    ELSE IF state = "waiting_for_phone" THEN "process_phone"
    ELSE IF state = "waiting_for_country" THEN "process_country"
    ELSE IF state = "waiting_for_about" THEN "process_about"
    ELSE IF IsCommand(m, "/skip") THEN "process_skip"
    ELSE IF m.kind = "text" THEN "handle_user_message"
    ELSE IF state = "waiting_for_theme" THEN "process_event_theme"
    ELSE IF state = "waiting_for_music_genre" THEN "process_music_genre"
    ELSE IF state = "waiting_for_max_teams" THEN "process_max_teams"
    ELSE IF state = "waiting_for_team_size" THEN "process_team_size"
    ELSE IF m.kind = "text" /\ m.text = "/stripe/webhook" THEN "stripe_webhook"
    ELSE IF IsCommand(m, "/settings") THEN "cmd_settings"
    ELSE IF IsCommand(m, "/cancel") THEN "cmd_cancel"
    ELSE None

\* get_or_create_user within a turn: the users table after it, and the row
UsersWith(u) == IF FindUser(u) = 0 THEN Append(users, NewUser(u)) ELSE users
RowOf(u) == IF FindUser(u) = 0 THEN Len(users) + 1 ELSE FindUser(u)

\* What the registration monitor `trail` expects as the k-th input.
HappyInput(k, kind, data, stateBefore) ==
    CASE k = 1 -> kind = "callback" /\ data \in {"lang_en", "lang_ru"} /\ stateBefore = None
      [] k = 2 -> kind = "text" /\ data = "Al"
      [] k = 3 -> kind = "contact"
      [] k \in {4, 5} -> kind = "text" /\ data = "/skip"
      [] OTHER -> FALSE
\* The monitor: while the inputs follow language, name, contact, skip, skip
\* from no session, the state each input led to; reset by any other input.
TrailAfter(u, kind, data, stateAfter) ==
    LET k == Len(trail[u])
    IN IF HappyInput(k + 1, kind, data, fsm[u].state)
       THEN [trail EXCEPT ![u] = Append(@, stateAfter)]
       ELSE IF HappyInput(1, kind, data, fsm[u].state)
       THEN [trail EXCEPT ![u] = <<stateAfter>>]
       ELSE [trail EXCEPT ![u] = << >>]

\* The parts of the state no conversation turn of this section touches.
DialogFrame ==
    UNCHANGED <<calls, participants, events, joins, payments, now, sweep, reminders>>

\* One conversation turn of user u, as the dispatcher and the handler leave it.
TurnDone(u, kind, data, handler, newUsers, session, newMessages, newActivity, answers) ==
    /\ users' = newUsers
    /\ fsm' = [fsm EXCEPT ![u] = session]
    /\ messages' = newMessages
    /\ last_activity' = newActivity
    /\ turn' = Turn(u, kind, data, handler, answers)
    /\ trail' = TrailAfter(u, kind, data, session.state)
    /\ UNCHANGED <<broadcast_data, broadcasts>>
    /\ DialogFrame

\* state_data.get("language", "en") is used only to pick the language of the
\* answers, which the model does not distinguish.

\* cmd_start: an unregistered user gets a cleared session in
\* waiting_for_language, a registered one the welcome and the help text.
cmd_start(u, m) ==
    /\ RouteMessage(m, fsm[u].state) = "cmd_start"
    /\ LET registered == UsersWith(u)[RowOf(u)].registration_complete
       IN TurnDone(u, m.kind, m.text, "cmd_start", UsersWith(u),
                   IF registered THEN fsm[u]
                   ELSE [state |-> "waiting_for_language", data |-> EmptyData],
                   messages, last_activity,
                   IF registered THEN {"welcome", "help"} ELSE {"welcome"})

\* cmd_help, and text_help which calls it
cmd_help(u, m) ==
    /\ RouteMessage(m, fsm[u].state) \in {"cmd_help", "text_help"}
    /\ TurnDone(u, m.kind, m.text, RouteMessage(m, fsm[u].state), UsersWith(u), fsm[u],
                messages, last_activity, {"help"})

\* callback.data.split("_")[1] of "lang_en" / "lang_ru"
LanguageOf(data) == IF data = "lang_ru" THEN "ru" ELSE "en"

\* process_language_selection: a callback with data lang_*, in any state
process_language_selection(u, data) ==
    /\ data \in {"lang_en", "lang_ru"}
    /\ TurnDone(u, "callback", data, "process_language_selection",
                [UsersWith(u) EXCEPT ![RowOf(u)].language = LanguageOf(data)],
                [state |-> "waiting_for_name",
                 data |-> [fsm[u].data EXCEPT !.language = LanguageOf(data)]],
                messages, last_activity, {"name_request"})

\* process_name: not message.text or len(message.text) < 2 re-prompts
\* not message.text or len(message.text) < 2
InvalidNameNever(text) == FALSE
InvalidName(text) == text = None \/ TextLen(text) < 2

process_name(u, m) ==
    /\ RouteMessage(m, fsm[u].state) = "process_name"
    /\ IF InvalidName(m.text)
       THEN TurnDone(u, m.kind, m.text, "process_name", UsersWith(u), fsm[u],
                     messages, last_activity, {"invalid_name"})
       ELSE TurnDone(u, m.kind, m.text, "process_name",
                     [UsersWith(u) EXCEPT ![RowOf(u)].real_name = m.text],
                     [fsm[u] EXCEPT !.state = "waiting_for_phone"],
                     messages, last_activity, {"phone_request"})

\* process_phone: only a shared contact is accepted
process_phone(u, m) ==
    /\ RouteMessage(m, fsm[u].state) = "process_phone"
    /\ IF m.contact = None
       THEN TurnDone(u, m.kind, m.text, "process_phone", UsersWith(u), fsm[u],
                     messages, last_activity, {"invalid_phone"})
       ELSE TurnDone(u, m.kind, m.text, "process_phone",
                     [UsersWith(u) EXCEPT ![RowOf(u)].phone_number = m.contact],
                     [fsm[u] EXCEPT !.state = "waiting_for_country"],
                     messages, last_activity, {"country_request"})

\* A mutant of the skip branch: the text of the command is stored.
FieldAfterKeepsCommand(text) == text
\* process_country / process_about: "/skip" stores None, any other message its text
FieldAfter(text) == IF text = "/skip" THEN None ELSE text

\* process_country
process_country(u, m) ==
    /\ RouteMessage(m, fsm[u].state) = "process_country"
    /\ TurnDone(u, m.kind, m.text, "process_country",
                [UsersWith(u) EXCEPT ![RowOf(u)].country = FieldAfter(m.text)],
                [fsm[u] EXCEPT !.state = "waiting_for_about"],
                messages, last_activity,
                IF m.text = "/skip" THEN {"skip_received", "about_request"}
                ELSE {"about_request"})

\* The answers when a registration completes: the administrator is notified
\* unless the user is the administrator; a failed send_message raises into
\* the handler's except clause, which answers error_occurred.
CompletionAnswersNotifyAlways(u, skipped, notifyOk) ==
    {"registration_complete"}
      \cup (IF skipped THEN {"skip_received"} ELSE {})
      \cup (IF notifyOk THEN {"admin_notified"} ELSE {"error_occurred"})
CompletionAnswers(u, skipped, notifyOk) ==
    {"registration_complete"}
      \cup (IF skipped THEN {"skip_received"} ELSE {})
      \cup (IF u = ADMIN_ID THEN {}
            ELSE IF notifyOk THEN {"admin_notified"} ELSE {"error_occurred"})

\* process_about: the field, registration_complete = True, state.clear()
process_about(u, m, notifyOk) ==
    /\ RouteMessage(m, fsm[u].state) = "process_about"
    /\ TurnDone(u, m.kind, m.text, "process_about",
                [UsersWith(u) EXCEPT ![RowOf(u)].about = FieldAfter(m.text),
                                     ![RowOf(u)].registration_complete = TRUE],
                NoSession, messages, last_activity,
                CompletionAnswers(u, m.text = "/skip", notifyOk))

\* process_skip: acts in waiting_for_country and waiting_for_about, and does
\* nothing in any other state
process_skip(u, m, notifyOk) ==
    /\ RouteMessage(m, fsm[u].state) = "process_skip"
    /\ IF fsm[u].state = "waiting_for_country"
       THEN TurnDone(u, m.kind, m.text, "process_skip",
                     [UsersWith(u) EXCEPT ![RowOf(u)].country = None],
                     [fsm[u] EXCEPT !.state = "waiting_for_about"],
                     messages, last_activity, {"skip_received", "about_request"})
       ELSE IF fsm[u].state = "waiting_for_about"
       THEN TurnDone(u, m.kind, m.text, "process_skip",
                     [UsersWith(u) EXCEPT ![RowOf(u)].about = None,
                                          ![RowOf(u)].registration_complete = TRUE],
                     NoSession, messages, last_activity,
                     CompletionAnswers(u, TRUE, notifyOk))
       ELSE TurnDone(u, m.kind, m.text, "process_skip", UsersWith(u), fsm[u],
                     messages, last_activity, {})

\* from_user.id == ADMIN_ID
IsAdminAnyone(u) == TRUE
IsAdmin(u) == u = ADMIN_ID

\* message.reply_to_message of a text: none, a reply whose recipient cannot be
\* determined (no forward_from, no "Telegram ID:" line), or the telegram id
\* the reply is addressed to.
NoReply == 0
UnknownTarget == -1

\* A conversation turn that also writes bot.broadcast_data or the
\* broadcast_messages table, or sends to the users `to`.
BroadcastTurnDone(u, kind, data, handler, newUsers, session, newMessages, answers, newData, newBroadcasts, to, count) ==
    /\ users' = newUsers
    /\ fsm' = [fsm EXCEPT ![u] = session]
    /\ messages' = newMessages
    /\ broadcast_data' = newData
    /\ broadcasts' = newBroadcasts
    /\ turn' = [Turn(u, kind, data, handler, answers) EXCEPT !.to = to, !.count = count]
    /\ trail' = TrailAfter(u, kind, data, session.state)
    /\ UNCHANGED last_activity
    /\ DialogFrame

\* handle_user_message: the keyword answer; registration_required for an
\* unregistered user who is not the administrator.  The administrator's text
\* in waiting_for_message is stored as the broadcast message and the session
\* moves to waiting_for_confirmation; otherwise it is a reply to a user (saved
\* as a Message row, then sent) or is refused.  Any other user's text is saved
\* as a Message row and relayed to the administrator, the first relayed
\* message of the process lifetime is acknowledged, and last_activity is set.
\* A failed send is answered with an error after the row was saved.
handle_user_message(u, m, reply, sendOk) ==
    /\ RouteMessage(m, fsm[u].state) = "handle_user_message"
    /\ IF m.text \in KeywordTexts
       THEN TurnDone(u, m.kind, m.text, "handle_user_message", UsersWith(u), fsm[u],
                     messages, last_activity, {"events_info"})
       ELSE IF ~UsersWith(u)[RowOf(u)].registration_complete /\ u # ADMIN_ID
       THEN TurnDone(u, m.kind, m.text, "handle_user_message", UsersWith(u), fsm[u],
                     messages, last_activity, {"registration_required"})
       ELSE IF IsAdmin(u)
       THEN IF fsm[u].state = "waiting_for_message"
            THEN BroadcastTurnDone(u, m.kind, m.text, "handle_user_message", UsersWith(u),
                                   [fsm[u] EXCEPT !.state = "waiting_for_confirmation"],
                                   messages, {"choose_audience"}, m.text, broadcasts, {}, 0)
            ELSE IF reply = NoReply
            THEN TurnDone(u, m.kind, m.text, "handle_user_message", UsersWith(u), fsm[u],
                          messages, last_activity, {"use_reply"})
            ELSE IF reply = UnknownTarget
            THEN TurnDone(u, m.kind, m.text, "handle_user_message", UsersWith(u), fsm[u],
                          messages, last_activity, {"no_recipient"})
            ELSE /\ Len(messages) < MaxMessages
                 /\ BroadcastTurnDone(u, m.kind, m.text, "handle_user_message", UsersWith(u),
                                      fsm[u],
                                      Append(messages, [user_id |-> RowOf(u), text |-> m.text,
                                                        is_from_user |-> FALSE]),
                                      IF sendOk THEN {"reply_sent"} ELSE {"reply_error"},
                                      broadcast_data, broadcasts, {reply}, 0)
       ELSE /\ Len(messages) < MaxMessages
            /\ TurnDone(u, m.kind, m.text, "handle_user_message", UsersWith(u), fsm[u],
                        Append(messages, [user_id |-> RowOf(u), text |-> m.text,
                                          is_from_user |-> TRUE]),
                        IF sendOk THEN last_activity \cup {u} ELSE last_activity,
                        IF ~sendOk THEN {"error_occurred"}
                        ELSE IF u \in last_activity THEN {"relayed_to_admin"}
                        ELSE {"relayed_to_admin", "message_received"})

\* admin_panel: the administrator gets the panel, anyone else no answer.
admin_panel(u, m) ==
    /\ RouteMessage(m, fsm[u].state) = "admin_panel"
    /\ TurnDone(u, m.kind, m.text, "admin_panel", users, fsm[u], messages, last_activity,
                IF IsAdmin(u) THEN {"admin_panel"} ELSE {})

\* create_broadcast (callback create_broadcast): the administrator's session
\* moves to waiting_for_message; anyone else's click is dropped.
create_broadcast(u) ==
    IF ~IsAdmin(u)
    THEN TurnDone(u, "callback", "create_broadcast", "create_broadcast", users, fsm[u],
                  messages, last_activity, {})
    ELSE TurnDone(u, "callback", "create_broadcast", "create_broadcast", users,
                  [fsm[u] EXCEPT !.state = "waiting_for_message"],
                  messages, last_activity, {"enter_broadcast"})

\* the broadcast_messages rows one run persists
MaxBroadcasts == 1
\* The buttons of get_broadcast_target_keyboard, and callback.data.split("_")[1].
BroadcastButtons == {"broadcast_all", "broadcast_en", "broadcast_ru", "broadcast_cancel"}
ActionOf(d) ==
    CASE d = "broadcast_all" -> "all"
      [] d = "broadcast_en" -> "en"
      [] d = "broadcast_ru" -> "ru"
      [] d = "broadcast_cancel" -> "cancel"

\* get_users_by_language: every row, or the rows of that language; as the
\* telegram ids of the rows.
get_users_by_language(language) ==
    {users[i].telegram_id :
        i \in {j \in DOMAIN users : language = None \/ users[j].language = language}}

\* The loop of process_broadcast over `matching` when the sends to `failed`
\* raise: the users a send was attempted to, the users marked by
\* mark_message_sent_to_user, and success_count.
FanOutStopsAtFailure(matching, failed) ==
    LET reached == {r \in matching : \A f \in failed : r < f}
    IN [attempted |-> reached \cup {f \in failed : \A g \in failed : f <= g},
        sent_to_users |-> reached, success_count |-> Cardinality(reached)]
FanOut(matching, failed) ==
    [attempted |-> matching, sent_to_users |-> matching \ failed,
     success_count |-> Cardinality(matching \ failed)]

\* The early returns of process_broadcast: an answer and state.clear().
ClearedBroadcast(u, d) ==
    BroadcastTurnDone(u, "callback", d, "process_broadcast", users, NoSession, messages,
                      IF ActionOf(d) = "cancel" THEN {"broadcast_cancelled"}
                      ELSE IF broadcast_data = None THEN {"broadcast_not_found"}
                      ELSE {"no_users"},
                      broadcast_data, broadcasts, {}, 0)

\* process_broadcast (callbacks broadcast_*): dropped unless the administrator
\* clicked; cancel clears the session; without a stored message, or without a
\* matching user, an answer and a cleared session; else the BroadcastMessage
\* row is saved, the message is sent to each matching user, each delivery is
\* marked on the row, the count is reported, the session is cleared and the
\* stored message is dropped.
process_broadcast(u, d, failed) ==
    LET target_language == IF ActionOf(d) = "all" THEN None ELSE ActionOf(d)
        matching == get_users_by_language(target_language)
        out == FanOut(matching, failed)
    IN IF ~IsAdmin(u)
       THEN /\ failed = {}
            /\ TurnDone(u, "callback", d, "process_broadcast", users, fsm[u], messages,
                        last_activity, {})
       ELSE IF ActionOf(d) = "cancel" \/ broadcast_data = None \/ matching = {}
       THEN /\ failed = {}
            /\ ClearedBroadcast(u, d)
       ELSE /\ Len(broadcasts) < MaxBroadcasts
            /\ failed \subseteq matching
            /\ BroadcastTurnDone(u, "callback", d, "process_broadcast", users, NoSession,
                                 messages, {"broadcast_done"}, None,
                                 Append(broadcasts,
                                        [text |-> broadcast_data,
                                         target_language |-> target_language,
                                         sent_to_users |-> out.sent_to_users]),
                                 out.attempted, out.success_count)

\* ---------------------------------------------------- creating an event
\* The buttons of get_event_type_keyboard and get_difficulty_keyboard, and
\* callback.data.split(":")[1].
TypeButtons == {"event_type:quiz", "event_type:music_quiz", "event_type:karaoke",
                "event_type:party"}
TypeOf(d) ==
    CASE d = "event_type:quiz" -> "quiz"
      [] d = "event_type:music_quiz" -> "music_quiz"
      [] d = "event_type:karaoke" -> "karaoke"
      [] d = "event_type:party" -> "party"
DifficultyButtons == {"difficulty:easy", "difficulty:medium", "difficulty:hard"}
LevelOf(d) ==
    CASE d = "difficulty:easy" -> "easy"
      [] d = "difficulty:medium" -> "medium"
      [] d = "difficulty:hard" -> "hard"

\* int(text): the number, or ValueError for a text that is no number
\* (TypeError for the text None of a message without text).
IsNumber(t) == t \in {"5"}
IntOf(t) == IF t = "5" THEN 5 ELSE NullInt

\* Every handler of this section fetches the database session with
\* message.bot.get("session") and the user with get_or_create_user(session,
\* ...), outside any try.  `ok` is whether these lines return; when they
\* raise, the handler stops with what it did before them and answers nothing.
CreateTurn(u, kind, data, handler, ok, session, answers) ==
    TurnDone(u, kind, data, handler, IF ok THEN UsersWith(u) ELSE users, session,
             messages, last_activity, IF ok THEN answers ELSE {})

\* create_event_start (callback create_event): set_state(waiting_for_type)
\* comes first.
create_event_start(u, ok) ==
    /\ u \in TgIds
    /\ CreateTurn(u, "callback", "create_event", "create_event_start", ok,
                  [fsm[u] EXCEPT !.state = "waiting_for_type"], {"event_create_type"})

\* process_event_type (callbacks event_type:*, in any state): update_data,
\* then the session and the user, then set_state(waiting_for_theme).
process_event_type(u, d, ok) ==
    /\ u \in TgIds
    /\ LET stored == [fsm[u] EXCEPT !.data.event_type = TypeOf(d)]
       IN CreateTurn(u, "callback", d, "process_event_type", ok,
                     IF ok THEN [stored EXCEPT !.state = "waiting_for_theme"] ELSE stored,
                     {"event_create_theme"})

\* The if / elif / else of process_event_theme on event_type.
StateAfterTheme(event_type) ==
    IF event_type \in {"quiz", "music_quiz"} THEN "waiting_for_difficulty"
    ELSE IF event_type \in {"karaoke", "music_quiz"} THEN "waiting_for_music_genre"
    ELSE "waiting_for_title"
AnswerAfterTheme(event_type) ==
    IF event_type \in {"quiz", "music_quiz"} THEN "event_create_difficulty"
    ELSE IF event_type \in {"karaoke", "music_quiz"} THEN "event_create_music_genre"
    ELSE "event_create_title"

\* process_event_theme (a message in waiting_for_theme)
process_event_theme(u, m, ok) ==
    /\ RouteMessage(m, fsm[u].state) = "process_event_theme"
    /\ LET stored == [fsm[u] EXCEPT !.data.theme = m.text]
       IN CreateTurn(u, m.kind, m.text, "process_event_theme", ok,
                     IF ok THEN [stored EXCEPT !.state = StateAfterTheme(stored.data.event_type)]
                     ELSE stored,
                     {AnswerAfterTheme(stored.data.event_type)})

\* process_difficulty (callbacks difficulty:*, in any state)
process_difficulty(u, d, ok) ==
    /\ u \in TgIds
    /\ LET stored == [fsm[u] EXCEPT !.data.difficulty_level = LevelOf(d)]
           music == stored.data.event_type = "music_quiz"
       IN CreateTurn(u, "callback", d, "process_difficulty", ok,
                     IF ~ok THEN stored
                     ELSE IF music THEN [stored EXCEPT !.state = "waiting_for_music_genre"]
                     ELSE [stored EXCEPT !.state = "waiting_for_max_teams"],
                     IF music THEN {"event_create_music_genre"}
                     ELSE {"event_create_max_teams"})

\* process_music_genre (a message in waiting_for_music_genre)
process_music_genre(u, m, ok) ==
    /\ RouteMessage(m, fsm[u].state) = "process_music_genre"
    /\ LET stored == [fsm[u] EXCEPT !.data.music_genre = m.text]
       IN CreateTurn(u, m.kind, m.text, "process_music_genre", ok,
                     IF ok THEN [stored EXCEPT !.state = "waiting_for_max_teams"] ELSE stored,
                     {"event_create_max_teams"})

\* process_max_teams (a message in waiting_for_max_teams): /skip stores None
\* and moves to waiting_for_title; a number is stored and moves to
\* waiting_for_team_size; ValueError is answered with invalid_number; the
\* TypeError of int(None) is not caught.
process_max_teams(u, m, ok) ==
    /\ RouteMessage(m, fsm[u].state) = "process_max_teams"
    /\ IF m.text = "/skip"
       THEN CreateTurn(u, m.kind, m.text, "process_max_teams", ok,
                       IF ok THEN [state |-> "waiting_for_title",
                                   data |-> [fsm[u].data EXCEPT !.max_teams = NullInt]]
                       ELSE fsm[u],
                       {"event_create_title"})
       ELSE IF m.text = None
       THEN CreateTurn(u, m.kind, m.text, "process_max_teams", ok, fsm[u], {})
       ELSE IF IsNumber(m.text)
       THEN CreateTurn(u, m.kind, m.text, "process_max_teams", ok,
                       IF ok THEN [state |-> "waiting_for_team_size",
                                   data |-> [fsm[u].data EXCEPT !.max_teams = IntOf(m.text)]]
                       ELSE fsm[u],
                       {"event_create_team_size"})
       ELSE CreateTurn(u, m.kind, m.text, "process_max_teams", ok, fsm[u],
                       {"invalid_number"})

\* process_team_size (a message in waiting_for_team_size): /skip or a number
\* is stored and moves to waiting_for_title.  No message reaches the handler:
\* waiting_for_team_size is set only by process_max_teams after int(text)
\* returned, and a message with a text is taken by a handler registered
\* before process_max_teams.  It is therefore no disjunct of NextCreate.
process_team_size(u, m, ok) ==
    /\ RouteMessage(m, fsm[u].state) = "process_team_size"
    /\ IF m.text = "/skip" \/ (m.text # None /\ IsNumber(m.text))
       THEN CreateTurn(u, m.kind, m.text, "process_team_size", ok,
                       IF ok THEN [state |-> "waiting_for_title",
                                   data |-> [fsm[u].data EXCEPT !.team_size = IntOf(m.text)]]
                       ELSE fsm[u],
                       {"event_create_title"})
       ELSE IF m.text = None
       THEN CreateTurn(u, m.kind, m.text, "process_team_size", ok, fsm[u], {})
       ELSE CreateTurn(u, m.kind, m.text, "process_team_size", ok, fsm[u],
                       {"invalid_number"})

\* A message no handler's filter accepts is dropped by the dispatcher.
Unhandled(u, m) ==
    /\ RouteMessage(m, fsm[u].state) = None
    /\ TurnDone(u, m.kind, m.text, None, users, fsm[u], messages, last_activity, {})

\* cmd_cancel: nothing to cancel without a state, else state.clear().  The
\* handler takes a message only when RouteMessage selects it, which it does
\* for no message: every text is taken by a handler registered before it.
\* It is therefore no disjunct of NextDialog.
cmd_cancel(u, m) ==
    /\ RouteMessage(m, fsm[u].state) = "cmd_cancel"
    /\ IF fsm[u].state = None
       THEN TurnDone(u, m.kind, m.text, "cmd_cancel", UsersWith(u), fsm[u],
                     messages, last_activity, {"nothing_to_cancel"})
       ELSE TurnDone(u, m.kind, m.text, "cmd_cancel", UsersWith(u), NoSession,
                     messages, last_activity, {"action_cancelled"})

\* Everything but the users, the events and the clock at start-up.
InitTables ==
    /\ payments = << >>
    /\ messages = << >>
    /\ fsm = [u \in TgIds |-> NoSession]
    /\ broadcast_data = None
    /\ broadcasts = << >>
    /\ last_activity = {}
    /\ turn = NoTurn
    /\ trail = [u \in TgIds |-> << >>]
    /\ sweep = IdleSweep
    /\ reminders = [e \in EventIds |-> [r \in Joiners |-> 0]]

InitRest ==
    /\ InitTables
    /\ now = 0

NoEvents ==
    /\ participants = [e \in EventIds |-> {}]
    /\ events = [e \in EventIds |-> NewEvent(ADMIN_ID, NullInt, NullInt, 0)]
    /\ joins = [u \in Joiners |-> IdleJoin]

InitUsers ==
    /\ users = << >>
    /\ calls = [c \in CallIds |-> IdleCall]
    /\ NoEvents
    /\ InitRest

NextUsers ==
    \/ \E c \in CallIds, tid \in TgIds : GocStart(c, tid)
    \/ \E c \in CallIds : GocLookup(c)
    \/ \E c \in CallIds : GocInsert(c)
    \/ \E c \in CallIds : GocEnd(c)
    \/ \E tid \in TgIds, l \in {"en", "ru"} : UpdateLanguage(tid, l)

SpecUsers == InitUsers /\ [][NextUsers]_vars

\* Registered users, keyed so that row id = telegram id.
Registered(n) ==
    [i \in 1..n |-> [NewUser(i) EXCEPT !.registration_complete = TRUE, !.real_name = "Al"]]

\* One free event with a capacity N in 1..MaxCap, and the joiners registered.
InitJoin ==
    /\ users = Registered(NumJoiners)
    /\ calls = [c \in CallIds |-> IdleCall]
    /\ participants = [e \in EventIds |-> {}]
    /\ \E n \in 1..MaxCap :
          events = [e \in EventIds |-> NewEvent(ADMIN_ID, n, NullInt, 0)]
    /\ joins = [u \in Joiners |-> IdleJoin]
    /\ InitRest

NextJoin ==
    \/ \E u \in Joiners, e \in EventIds : JoinBegin(u, e)
    \/ \E u \in Joiners : JoinCheck(u)
    \/ \E u \in Joiners : JoinCommit(u)
    \/ \E u \in Joiners : JoinEnd(u)

SpecJoin == InitJoin /\ [][NextJoin]_vars

\* C1: for an event with max_participants = N >= 1, under any interleaving of
\* join turns by distinct users the number of participants never exceeds N,
\* and a joiner whose turn begins when N users are members gets Full.
C1_CapacityUnderInterleaving ==
    /\ \A e \in EventIds :
          events[e].max_participants >= 1
             => Cardinality(participants[e]) <= events[e].max_participants
    /\ \A u \in Joiners :
          (joins[u].pc = "done" /\ joins[u].late /\ FindUser(u) \notin joins[u].roster)
             => joins[u].result = "Full"
\* Two turns both passed the capacity test of an event with one slot.
C1_BothPassedTheTest ==
    \E u, v \in Joiners :
        /\ u # v
        /\ joins[u].pc = "commit" /\ joins[v].pc = "commit"
        /\ events[joins[u].event].max_participants = 1
        /\ joins[u].event = joins[v].event

\* One event, free or capped, and registered users calling the registry.
InitApi ==
    /\ users = Registered(NumJoiners)
    /\ calls = [c \in CallIds |-> IdleCall]
    /\ participants = [e \in EventIds |-> {}]
    /\ \E n \in {NullInt} \cup (0..MaxCap) :
          events = [e \in EventIds |-> NewEvent(ADMIN_ID, n, NullInt, 0)]
    /\ joins = [u \in Joiners |-> IdleJoin]
    /\ InitRest

NextApi ==
    \/ \E u \in Joiners, e \in EventIds : ApiJoin(u, e)
    \/ \E u \in Joiners, e \in EventIds : ApiLeave(u, e)
    \/ \E u \in Joiners, e \in EventIds : ApiCreatePayment(u, e)
    \/ \E i \in IntentIds : ApiPaymentSucceeded(i)

SpecApi == InitApi /\ [][NextApi]_vars

\* C2: join is idempotent: a second join by the user the first join admitted
\* leaves the participant set unchanged and returns Admitted again, also when
\* the first join filled the event.
C2_JoinTwiceAdmittedTwice ==
    [][(/\ turn.handler = "join_event" /\ turn.data = "Admitted"
        /\ turn'.handler = "join_event" /\ turn'.user = turn.user)
       => (turn'.data = "Admitted" /\ participants' = participants)]_vars
\* A join was admitted and filled the event.
C2_FirstJoinFilledEvent ==
    /\ turn.handler = "join_event" /\ turn.data = "Admitted"
    /\ \E e \in EventIds :
          /\ turn.user \in participants[e]
          /\ Cardinality(participants[e]) = events[e].max_participants

ScriptOutcomes ==
    << <<"Admitted", 1>>, <<"Full", 1>>, <<"Left", 0>>, <<"Admitted", 1>> >>
C18_LeaveFreesASlot ==
    /\ [](/\ Len(trail[ScriptA]) <= 4
          /\ trail[ScriptA] = SubSeq(ScriptOutcomes, 1, Len(trail[ScriptA])))
    /\ [][turn'.handler = "leave_event"
          => participants' = [participants EXCEPT ![turn'.event] = @ \ {turn'.user}]]_vars
\* The four calls of the sequence have been made in order.
C18_SequenceCompleted == Len(trail[ScriptA]) = 4

C21_CapHoldsAlsoForZero ==
    \A e \in EventIds :
        events[e].max_participants # NullInt
           => Cardinality(participants[e]) <= events[e].max_participants
\* A user has called join on an event with max_participants = 0.
C21_JoinOnZeroCap ==
    \E e \in EventIds :
        /\ events[e].max_participants = 0
        /\ turn.handler = "join_event" /\ turn.event = e

\* One event, free or paid, with a capacity, and the joiners registered.
InitPay ==
    /\ users = Registered(NumJoiners)
    /\ calls = [c \in CallIds |-> IdleCall]
    /\ participants = [e \in EventIds |-> {}]
    /\ \E n \in 1..MaxCap, p \in {NullInt, Price} :
          events = [e \in EventIds |-> NewEvent(ADMIN_ID, n, p, 0)]
    /\ joins = [u \in Joiners |-> IdleJoin]
    /\ InitRest

NextPay ==
    \/ \E u \in Payers, e \in EventIds : JoinBegin(u, e)
    \/ \E u \in Payers : JoinCheck(u)
    \/ \E u \in Payers : JoinCommit(u)
    \/ \E u \in Payers, ok \in BOOLEAN : JoinPayment(u, ok)
    \/ \E u \in Payers : JoinEnd(u)
    \/ \E u \in Payers, e \in EventIds : LeaveTurn(u, e)
    \/ \E d, g \in BOOLEAN, t \in WebhookTypes, i \in IntentIds : StripeWebhook(d, g, t, i)

SpecPay == InitPay /\ [][NextPay]_vars

\* C8: a webhook delivery whose signature fails verification changes no
\* payment's status, adds no user to any event's participants and sends no
\* message.
C8_BadSignatureIsNoOp ==
    [][(turn'.handler = "stripe_webhook" /\ turn'.kind = "webhook" /\ ~turn'.signed)
       => /\ Len(payments') = Len(payments)
          /\ \A i \in DOMAIN payments : payments'[i].status = payments[i].status
          /\ \A e \in EventIds : participants'[e] \subseteq participants[e]
          /\ turn'.answers = {}]_vars
\* A badly signed "succeeded" delivery for a pending payment was handed in.
C8_BadSignatureDelivered ==
    /\ turn.handler = "stripe_webhook" /\ turn.kind = "webhook" /\ ~turn.signed
    /\ turn.data = "payment_intent.succeeded"
    /\ FindPayment(turn.intent) # 0
    /\ payments[FindPayment(turn.intent)].status = "pending"

\* C9: when a correctly signed "succeeded" webhook arrives for the intent of a
\* pending payment and the event has a free slot, the payment becomes
\* succeeded and the payer becomes a participant of the event.
C9_SignedSucceededAdmits ==
    [][\A i \in IntentIds :
         (/\ turn'.handler = "stripe_webhook" /\ turn'.kind = "webhook" /\ turn'.signed
          /\ turn'.data = "payment_intent.succeeded" /\ turn'.intent = i
          /\ FindPayment(i) # 0
          /\ payments[FindPayment(i)].status = "pending"
          /\ ~EventFull(participants[payments[FindPayment(i)].event_id],
                        events[payments[FindPayment(i)].event_id].max_participants))
         => /\ payments'[FindPayment(i)].status = "succeeded"
            /\ payments[FindPayment(i)].user_id
                  \in participants'[payments[FindPayment(i)].event_id]]_vars

\* C11: when a correctly signed webhook reports a status other than succeeded
\* for the intent of a pending payment, the payment becomes failed and the
\* payer is not added to the event's participants.
C11_SignedFailureMarksFailed ==
    [][\A i \in IntentIds :
         (/\ turn'.handler = "stripe_webhook" /\ turn'.kind = "webhook" /\ turn'.signed
          /\ turn'.data # "payment_intent.succeeded" /\ turn'.intent = i
          /\ FindPayment(i) # 0
          /\ payments[FindPayment(i)].status = "pending")
         => /\ payments'[FindPayment(i)].status = "failed"
            /\ participants'[payments[FindPayment(i)].event_id]
                  \subseteq participants[payments[FindPayment(i)].event_id]]_vars
\* A well signed delivery reported a failed payment for a pending intent.
C11_FailureDelivered ==
    /\ turn.handler = "stripe_webhook" /\ turn.kind = "webhook" /\ turn.signed
    /\ turn.data = "payment_intent.payment_failed"
    /\ FindPayment(turn.intent) # 0
    /\ payments[FindPayment(turn.intent)].status = "pending"

\* C12: on an event with a price, a join click by a user who is not a
\* participant never adds that user to the participants, it creates at most a
\* pending payment for (user, event); a user enters the participants of a paid
\* event only in a turn that processes a succeeded confirmation of a payment
\* of that user for that event.
C12_PaidJoinOnlyByConfirmation ==
    [][\A u \in Payers, e \in EventIds :
         Truthy(events[e].price) =>
           /\ (/\ turn'.handler = "join_event_callback" /\ turn'.user = u
               /\ FindUser(u) \notin participants[e])
              => /\ FindUser(u) \notin participants'[e]
                 /\ \/ payments' = payments
                    \/ payments' = Append(payments,
                          CreatedPayment(Len(payments) + 1, FindUser(u), e))
           /\ (FindUser(u) \notin participants[e] /\ FindUser(u) \in participants'[e])
              => /\ turn'.handler = "stripe_webhook" /\ turn'.signed
                 /\ turn'.data = "payment_intent.succeeded"
                 /\ FindPayment(turn'.intent) # 0
                 /\ payments'[FindPayment(turn'.intent)].status = "succeeded"
                 /\ payments'[FindPayment(turn'.intent)].user_id = FindUser(u)
                 /\ payments'[FindPayment(turn'.intent)].event_id = e]_vars
\* A join click on a paid event ended with the payment link: the pending
\* payment exists and the user is no participant.
C12_PaymentRequested ==
    \E u \in Payers :
        /\ joins[u].pc = "done" /\ joins[u].result = "PaymentRequested"
        /\ Truthy(events[joins[u].event].price)
        /\ FindUser(u) \notin participants[joins[u].event]
        /\ \E i \in DOMAIN payments :
              payments[i] = CreatedPayment(i, FindUser(u), joins[u].event)

\* C13: if the gateway's create-intent call fails during a paid join, no
\* Payment row is created, the participants are unchanged, and the user is
\* told there was a payment error.
C13_GatewayFailureLeavesNoTrace ==
    [][\A u \in Payers :
         /\ (joins[u].pc = "payment" /\ joins'[u].result = "PaymentError")
            => (payments' = payments /\ participants' = participants)
         /\ (joins[u].result = "PaymentError" /\ joins'[u].pc = "idle")
            => /\ turn'.user = u /\ turn'.answers = {"payment_error"}
               /\ payments' = payments /\ participants' = participants]_vars
\* A paid join whose gateway call failed is about to answer.
C13_GatewayFailed ==
    \E u \in Payers : joins[u].pc = "done" /\ joins[u].result = "PaymentError"

\* One active event without a participant cap, free or paid, created by one
\* of the users; each user has a row, with the registration complete or not.
InitEvents ==
    /\ \E reg \in SUBSET Payers :
          users = [i \in Payers |-> IF i \in reg THEN Registered(NumPayers)[i]
                                    ELSE NewUser(i)]
    /\ calls = [c \in CallIds |-> IdleCall]
    /\ participants = [e \in EventIds |-> {}]
    /\ \E c \in Payers, p \in {NullInt, Price} :
          events = [e \in EventIds |-> NewEvent(c, NullInt, p, 0)]
    /\ joins = [u \in Joiners |-> IdleJoin]
    /\ InitRest

NextEvents ==
    \/ \E u \in Payers, e \in EventIds : JoinBegin(u, e)
    \/ \E u \in Payers : JoinCheck(u)
    \/ \E u \in Payers : JoinCommit(u)
    \/ \E u \in Payers, ok \in BOOLEAN : JoinPayment(u, ok)
    \/ \E u \in Payers : JoinEnd(u)
    \/ \E u \in Payers, e \in EventIds : LeaveTurn(u, e)
    \/ \E u \in Payers, e \in CallbackEventIds : CancelTurn(u, e)

SpecEvents == InitEvents /\ [][NextEvents]_vars

\* C14: in every reachable state every participant of every event is a user
\* with registration_complete = true or the administrator.
C14_ParticipantsAreRegistered ==
    \A e \in EventIds : \A p \in participants[e] :
        users[p].registration_complete \/ users[p].telegram_id = ADMIN_ID
\* A user who is not the administrator and has not completed the registration
\* has clicked join on a free event.
C14_UnregisteredClickedJoin ==
    \E u \in Payers :
        /\ u # ADMIN_ID
        /\ ~users[FindUser(u)].registration_complete
        /\ joins[u].pc = "got_event"
        /\ ~Truthy(events[joins[u].event].price)

\* C15: is_active of an event changes from true to false only in a cancel
\* turn of the event's creator; a cancel request of any other user leaves the
\* event unchanged and is answered as not found.
C15_OnlyCreatorCancels ==
    [][\A e \in EventIds :
         /\ (events[e].is_active /\ ~events'[e].is_active)
            => /\ turn'.handler = "cancel_event_callback" /\ turn'.event = e
               /\ FindUser(turn'.user) = events[e].creator_id
         /\ (/\ turn'.handler = "cancel_event_callback" /\ turn'.event = e
             /\ FindUser(turn'.user) # events[e].creator_id)
            => (events' = events /\ turn'.answers = {"event_not_found"})]_vars
\* A user who is not the creator has asked to cancel an active event.
C15_StrangerAskedToCancel ==
    \E e \in EventIds :
        /\ turn.handler = "cancel_event_callback" /\ turn.event = e
        /\ FindUser(turn.user) # events[e].creator_id
        /\ events[e].is_active

\* C16: cancelling an event changes only its is_active flag: the participants,
\* the creator, notification_sent and every payment row are as before.
C16_CancelChangesOnlyIsActive ==
    [][turn'.handler = "cancel_event_callback"
       => /\ participants' = participants
          /\ payments' = payments
          /\ \A e \in EventIds :
                events'[e] = [events[e] EXCEPT !.is_active = events'[e].is_active]]_vars
\* An event with a participant has been cancelled by its creator.
C16_CancelledWithParticipants ==
    \E e \in EventIds :
        /\ turn.handler = "cancel_event_callback" /\ turn.event = e
        /\ ~events[e].is_active
        /\ participants[e] # {}

\* Any persisted events, active or cancelled, reminded or not, at any dates,
\* and any instant.
InitQuery ==
    /\ users = Registered(NumPayers)
    /\ calls = [c \in CallIds |-> IdleCall]
    /\ participants = [e \in EventIds |-> {}]
    /\ \E d \in [QueryEventIds -> Dates], a, n \in [QueryEventIds -> BOOLEAN] :
          events = [e \in QueryEventIds |->
                      [NewEvent(ADMIN_ID, NullInt, NullInt, d[e])
                         EXCEPT !.is_active = a[e], !.notification_sent = n[e]]]
    /\ joins = [u \in Joiners |-> IdleJoin]
    /\ InitTables
    /\ now \in Dates

NextQuery ==
    \/ get_upcoming_events
    \/ get_past_events
    \/ get_events_for_notification

SpecQuery == InitQuery /\ [][NextQuery]_vars

\* C17: upcoming(now) returns exactly the active events with date > now in
\* ascending date order, past(now) exactly the active events with date < now
\* in descending date order, and neither query changes any state.
QueryRowsExact(wanted) ==
    /\ {turn.rows[i] : i \in DOMAIN turn.rows} = wanted
    /\ Len(turn.rows) = Cardinality(wanted)
C17_QueriesAreExactAndPure ==
    /\ [](turn.handler = "get_upcoming_events"
            => /\ QueryRowsExact({e \in DOMAIN events :
                                    events[e].is_active /\ events[e].event_date > now})
               /\ \A i, j \in DOMAIN turn.rows :
                     i < j => events[turn.rows[i]].event_date
                                 <= events[turn.rows[j]].event_date)
    /\ [](turn.handler = "get_past_events"
            => /\ QueryRowsExact({e \in DOMAIN events :
                                    events[e].is_active /\ events[e].event_date < now})
               /\ \A i, j \in DOMAIN turn.rows :
                     i < j => events[turn.rows[i]].event_date
                                 >= events[turn.rows[j]].event_date)
    /\ [][UNCHANGED <<users, participants, events, payments, messages, fsm, now>>]_vars
\* The upcoming query returned a row while another event starts right now.
C17_UpcomingBesideCurrent ==
    /\ turn.handler = "get_upcoming_events"
    /\ Len(turn.rows) >= 1
    /\ \E e \in DOMAIN events : events[e].is_active /\ events[e].event_date = now

\* C22: dueForNotification(now) returns exactly the active events with
\* notification_sent = false whose date t satisfies now <= t < now + 24h; an
\* event scheduled exactly at now + 24h is not returned.
C22_DueWindowIsHalfOpen ==
    turn.handler = "get_events_for_notification"
       => QueryRowsExact({e \in DOMAIN events :
                            /\ events[e].is_active /\ ~events[e].notification_sent
                            /\ now <= events[e].event_date
                            /\ events[e].event_date < now + Horizon})
\* An active event without a reminder is scheduled exactly 24 hours from now.
C22_EventAtHorizon ==
    /\ turn.handler = "get_events_for_notification"
    /\ \E e \in DOMAIN events :
          /\ events[e].is_active /\ ~events[e].notification_sent
          /\ events[e].event_date = now + Horizon

\* One active event without a cap on some day, created by one of the
\* registered users, who join, leave and cancel while the hourly job runs.
InitSweep ==
    /\ users = Registered(NumPayers)
    /\ calls = [c \in CallIds |-> IdleCall]
    /\ participants = [e \in EventIds |-> {}]
    /\ \E c \in Payers, d \in Dates :
          events = [e \in EventIds |-> NewEvent(c, NullInt, NullInt, d)]
    /\ joins = [u \in Joiners |-> IdleJoin]
    /\ InitRest

NextSweep ==
    \/ SweepStart
    \/ \E e \in EventIds, ok \in BOOLEAN, d \in SUBSET Payers : SweepEvent(e, ok, d)
    \/ SweepEnd
    \/ Tick
    \/ \E u \in Payers, e \in EventIds : ApiJoin(u, e)
    \/ \E u \in Payers, e \in EventIds : ApiLeave(u, e)
    \/ \E u \in Payers, e \in CallbackEventIds : CancelTurn(u, e)

SpecSweep == InitSweep /\ [][NextSweep]_vars

\* C20: across any number of runs of the hourly job the 24-hour reminder of an
\* event reaches any recipient at most once: once a run has sent an event's
\* reminders notification_sent is true and no later run selects the event.
C20_ReminderAtMostOnce ==
    /\ [](\A e \in EventIds : \A r \in DOMAIN reminders[e] : reminders[e][r] <= 1)
    /\ [][\A e \in EventIds :
            /\ (turn'.handler = "send_event_notifications" /\ turn'.event = e)
               => events'[e].notification_sent
            /\ (sweep.pc = "idle" /\ sweep'.pc = "sending" /\ events[e].notification_sent)
               => e \notin sweep'.due]_vars
\* The creator of an event that is due is one of its participants.
C20_CreatorIsParticipant ==
    \E e \in EventIds :
        /\ events[e].creator_id \in participants[e]
        /\ sweep.pc = "sending" /\ e \in sweep.due

\* C23: notification_sent is a one-way flag: under any interleaving of the
\* job with turns that join, leave or cancel the same event it never goes
\* from true to false, marking a marked event changes nothing, and the job's
\* marking leaves is_active and the participants as the turns committed them.
C23_MarkingIsMonotoneAndNarrow ==
    [][\A e \in EventIds :
         /\ events[e].notification_sent => events'[e].notification_sent
         /\ (turn'.handler = "send_event_notifications" /\ turn'.event = e)
            => /\ events'[e] = [events[e] EXCEPT !.notification_sent = TRUE]
               /\ participants' = participants]_vars
\* The creator cancelled the event after the job had selected it, and the job
\* then marked it.
C23_MarkedAfterCancel ==
    \E e \in EventIds :
        /\ turn.handler = "send_event_notifications" /\ turn.event = e
        /\ events[e].notification_sent
        /\ ~events[e].is_active

\* The bot after start-up: empty tables, no sessions.
InitDialog ==
    /\ users = << >>
    /\ calls = [c \in CallIds |-> IdleCall]
    /\ NoEvents
    /\ InitRest

NextDialog ==
    \E u \in Visitors :
        \/ \E m \in Messages : cmd_start(u, m)
        \/ \E m \in Messages : cmd_help(u, m)
        \/ \E d \in {"lang_en", "lang_ru"} : process_language_selection(u, d)
        \/ \E m \in Messages : process_name(u, m)
        \/ \E m \in Messages : process_phone(u, m)
        \/ \E m \in Messages : process_country(u, m)
        \/ \E m \in Messages, ok \in BOOLEAN : process_about(u, m, ok)
        \/ \E m \in Messages, ok \in BOOLEAN : process_skip(u, m, ok)
        \/ \E m \in Messages, ok \in BOOLEAN : handle_user_message(u, m, NoReply, ok)
        \/ \E m \in Messages : Unhandled(u, m)

SpecDialog == InitDialog /\ [][NextDialog]_vars

\* C5: from no session, the inputs language selection, valid name, shared
\* contact, skip, skip lead through waiting_for_name, waiting_for_phone,
\* waiting_for_country, waiting_for_about in that order and end with the
\* session cleared, registration_complete true, country None and about None.
HappyStates ==
    <<"waiting_for_name", "waiting_for_phone", "waiting_for_country",
      "waiting_for_about", None>>
C5_RegistrationHappyPath ==
    \A u \in Visitors :
        /\ Len(trail[u]) <= 5
        /\ trail[u] = SubSeq(HappyStates, 1, Len(trail[u]))
        /\ Len(trail[u]) = 5 =>
              /\ fsm[u] = NoSession
              /\ users[FindUser(u)].registration_complete
              /\ users[FindUser(u)].country = None
              /\ users[FindUser(u)].about = None
\* A user has given the five inputs in order.
C5_FiveInputsGiven == \E u \in Visitors : Len(trail[u]) = 5

\* C6: when a user whose session is in a waiting state sends the cancel
\* command, the cancel handler takes the message, the session is cleared,
\* success is reported, and no profile field or accumulator is written.
C6_CancelInAnyWaitingState ==
    [][\A u \in Visitors :
         (/\ turn'.user = u /\ turn'.kind = "text" /\ turn'.data = "/cancel"
          /\ fsm[u].state # None)
         => /\ turn'.handler = "cmd_cancel"
            /\ fsm'[u] = NoSession
            /\ "action_cancelled" \in turn'.answers
            /\ \A i \in DOMAIN users : users'[i] = users[i]
            /\ broadcast_data' = broadcast_data]_vars
\* A session waits for the name.
C6_WaitingForName == \E u \in Visitors : fsm[u].state = "waiting_for_name"

\* C7: the cancel command without an active session reports "nothing to
\* cancel" and changes neither the sessions nor the users, messages, events,
\* participants or payments.
C7_CancelWithoutSession ==
    [][\A u \in Visitors :
         (/\ turn'.user = u /\ turn'.kind = "text" /\ turn'.data = "/cancel"
          /\ fsm[u] = NoSession)
         => /\ "nothing_to_cancel" \in turn'.answers
            /\ UNCHANGED <<fsm, users, messages, events, participants, payments>>]_vars
\* A registered user has no session.
C7_RegisteredWithoutSession ==
    \E u \in Visitors :
        /\ fsm[u] = NoSession
        /\ FindUser(u) # 0
        /\ users[FindUser(u)].registration_complete

\* C27: in the registration flow the skip sentinel at the country step (and
\* at the about step) advances the state without writing the field: the
\* persisted country (about) after the skip equals its value before, also
\* when an earlier, restarted pass through the flow had set it.
C27_SkipWritesNothing ==
    [][\A u \in Visitors :
         (/\ turn'.user = u /\ turn'.kind = "text" /\ turn'.data = "/skip"
          /\ FindUser(u) # 0)
         => /\ fsm[u].state = "waiting_for_country"
               => /\ fsm'[u].state = "waiting_for_about"
                  /\ users'[FindUser(u)].country = users[FindUser(u)].country
            /\ fsm[u].state = "waiting_for_about"
               => /\ fsm'[u].state # "waiting_for_about"
                  /\ users'[FindUser(u)].about = users[FindUser(u)].about]_vars
\* A user whose country an earlier pass has set is at the country step again.
C27_CountrySetAtCountryStep ==
    \E u \in Visitors :
        /\ FindUser(u) # 0
        /\ fsm[u].state = "waiting_for_country"
        /\ users[FindUser(u)].country # None

\* ------------------------------------------------------- the broadcast
\* The administrator and one other user, who has not registered, send
\* updates; the users table holds a row for each telegram id, each set to one
\* of the languages.
BroadcastActors == {ADMIN_ID} \cup Visitors
BroadcastMessages == {TextMessage(t) : t \in {"/admin", "Al", "events"}}

InitBroadcast ==
    /\ \E lang \in [TgIds -> {"en", "ru"}] :
          users = [i \in TgIds |->
                      [(IF i \in Visitors THEN NewUser(i) ELSE Registered(MaxTgId)[i])
                         EXCEPT !.language = lang[i]]]
    /\ calls = [c \in CallIds |-> IdleCall]
    /\ NoEvents
    /\ InitRest

NextBroadcast ==
    \E u \in BroadcastActors :
        \/ \E m \in BroadcastMessages : admin_panel(u, m)
        \/ create_broadcast(u)
        \/ \E m \in BroadcastMessages, ok \in BOOLEAN,
                reply \in IF IsAdmin(u) THEN {NoReply, UnknownTarget} ELSE {NoReply} :
              handle_user_message(u, m, reply, ok)
        \/ \E d \in BroadcastButtons, failed \in SUBSET TgIds :
              process_broadcast(u, d, failed)

SpecBroadcast == InitBroadcast /\ [][NextBroadcast]_vars

\* C30: the broadcast flow is administrator-only: no update of a user who is
\* not the administrator puts that user's session into a broadcast state,
\* stores or drops a broadcast message, writes a broadcast row, or sends
\* anything to the audience.
BroadcastStates == {"waiting_for_message", "waiting_for_confirmation"}
C30_BroadcastIsAdminOnly ==
    /\ [](\A u \in Visitors : fsm[u].state \notin BroadcastStates)
    /\ [][turn'.user \in Visitors
            => /\ broadcast_data' = broadcast_data
               /\ broadcasts' = broadcasts
               /\ turn'.to = {}]_vars
\* a user who is not the administrator clicked an audience button while a
\* broadcast message was stored
C30_StrangerClickedAudience ==
    /\ turn.user \in Visitors
    /\ turn.handler = "process_broadcast"
    /\ turn.data # "broadcast_cancel"
    /\ broadcast_data # None

\* C29: a broadcast is best-effort: whichever recipients fail, a send is
\* attempted to every user of the chosen audience, the reported count is the
\* number of users marked on the broadcast row and at most the size of the
\* audience, and every turn of process_broadcast leaves the administrator's
\* session cleared and reports no error.
C29_FanOutIsBestEffort ==
    [][turn'.handler = "process_broadcast" /\ IsAdmin(turn'.user)
         => /\ fsm'[turn'.user] = NoSession
            /\ "error_occurred" \notin turn'.answers
            /\ Len(broadcasts') > Len(broadcasts)
                 => LET matching == get_users_by_language(
                                        IF ActionOf(turn'.data) = "all" THEN None
                                        ELSE ActionOf(turn'.data))
                        row == broadcasts'[Len(broadcasts')]
                    IN /\ turn'.to = matching
                       /\ turn'.count = Cardinality(row.sent_to_users)
                       /\ row.sent_to_users \subseteq matching
                       /\ turn'.count <= Cardinality(matching)]_vars
\* a broadcast some of whose recipients failed and some did not
C29_PartialDelivery ==
    /\ turn.handler = "process_broadcast"
    /\ 0 < turn.count
    /\ turn.count < Cardinality(turn.to)

\* ------------------------------------------- two registrations side by side
\* The administrator and one other user register, from empty tables.
RegisterActors == {ADMIN_ID} \cup Visitors
RegisterMessages == {TextMessage("Al"), TextMessage("/skip"), ContactMessage}

NextRegister ==
    \E u \in RegisterActors :
        \/ process_language_selection(u, "lang_en")
        \/ \E m \in RegisterMessages : process_name(u, m)
        \/ \E m \in RegisterMessages : process_phone(u, m)
        \/ \E m \in RegisterMessages : process_country(u, m)
        \/ \E m \in RegisterMessages, ok \in BOOLEAN : process_about(u, m, ok)
        \/ \E m \in RegisterMessages, ok \in BOOLEAN : process_skip(u, m, ok)
        \/ \E m \in RegisterMessages, ok \in BOOLEAN : handle_user_message(u, m, NoReply, ok)
        \/ \E m \in RegisterMessages : Unhandled(u, m)

SpecRegister == InitDialog /\ [][NextRegister]_vars

\* C28: the turn that completes a registration notifies the administrator
\* exactly once (delivered, or failed and answered with error_occurred) when
\* the user is not the administrator and not at all when the user is; either
\* way the user's row is registration_complete and the session is cleared
\* after the turn; and no other turn sends the notification, so a failed one
\* is not sent again.
Notifications(answers) == answers \cap {"admin_notified", "error_occurred"}
C28_OneNotificationPerCompletion ==
    [][\A u \in RegisterActors :
         turn'.user = u
         => /\ "admin_notified" \in turn'.answers => "registration_complete" \in turn'.answers
            /\ "registration_complete" \in turn'.answers
                 => /\ Cardinality(Notifications(turn'.answers))
                          = IF u = ADMIN_ID THEN 0 ELSE 1
                    /\ \E i \in DOMAIN users' :
                          /\ users'[i].telegram_id = u
                          /\ users'[i].registration_complete
                    /\ fsm'[u] = NoSession]_vars
\* the other user's registration completed with a failed notification, the
\* administrator having completed theirs
C28_NotificationFailed ==
    /\ turn.user \in Visitors
    /\ turn.answers = {"registration_complete", "skip_received", "error_occurred"}
    /\ FindUser(ADMIN_ID) # 0
    /\ users[FindUser(ADMIN_ID)].registration_complete

\* --------------------------------------------- the event-creation flow
\* One user, registered or not, clicks the buttons of the flow and sends
\* texts and a message without text.
CreateMessages == {TextMessage(t) : t \in {"5", "x", "/skip"}} \cup {ContactMessage}

InitCreate ==
    /\ users \in {<< >>, Registered(MaxTgId)}
    /\ calls = [c \in CallIds |-> IdleCall]
    /\ NoEvents
    /\ InitRest

NextCreate ==
    \E u \in Visitors, ok \in BOOLEAN :
        \/ create_event_start(u, ok)
        \/ \E d \in TypeButtons : process_event_type(u, d, ok)
        \/ \E m \in CreateMessages : process_event_theme(u, m, ok)
        \/ \E d \in DifficultyButtons : process_difficulty(u, d, ok)
        \/ \E m \in CreateMessages : process_music_genre(u, m, ok)
        \/ \E m \in CreateMessages : process_max_teams(u, m, ok)
        \/ \E m \in CreateMessages : process_skip(u, m, ok)
        \/ \E m \in CreateMessages : handle_user_message(u, m, NoReply, ok)
        \/ \E m \in CreateMessages : Unhandled(u, m)

SpecCreate == InitCreate /\ [][NextCreate]_vars

\* C24: a message answered at the theme step moves the flow to
\* waiting_for_difficulty exactly for the types quiz and music_quiz and to
\* waiting_for_music_genre for karaoke; a difficulty chosen in
\* waiting_for_difficulty moves it to waiting_for_music_genre exactly for
\* music_quiz; party enters neither state.
C24_BranchAfterTheme ==
    [][\A u \in Visitors :
         (turn'.user = u /\ turn'.answers # {})
         => LET type == fsm[u].data.event_type
            IN /\ (fsm[u].state = "waiting_for_theme" /\ turn'.kind \in {"text", "contact"})
                    => /\ fsm'[u].state = "waiting_for_difficulty"
                            <=> type \in {"quiz", "music_quiz"}
                       /\ fsm'[u].state = "waiting_for_music_genre" <=> type = "karaoke"
               /\ (fsm[u].state = "waiting_for_difficulty"
                     /\ turn'.handler = "process_difficulty")
                    => (fsm'[u].state = "waiting_for_music_genre" <=> type = "music_quiz")
               /\ (fsm'[u].state \in {"waiting_for_difficulty", "waiting_for_music_genre"}
                     /\ fsm'[u].state # fsm[u].state)
                    => type # "party"]_vars
\* a text was sent at the theme step of a quiz
C24_TextAtThemeStep ==
    \E u \in Visitors :
        /\ fsm[u].state = "waiting_for_theme"
        /\ fsm[u].data.event_type = "quiz"
        /\ turn.user = u /\ turn.kind = "text" /\ turn.data = "x"

\* C25: at the two numeric steps a text that is neither /skip nor a number is
\* answered with invalid_number and changes neither the state nor the data;
\* /skip or a number is stored and the flow moves on.
NumericStates == {"waiting_for_max_teams", "waiting_for_team_size"}
C25_NumericSteps ==
    [][\A u \in Visitors :
         (turn'.user = u /\ turn'.kind = "text" /\ fsm[u].state \in NumericStates)
         => IF turn'.data = "/skip" \/ IsNumber(turn'.data)
            THEN /\ fsm'[u].state # fsm[u].state
                 /\ IF fsm[u].state = "waiting_for_max_teams"
                    THEN fsm'[u].data.max_teams = IntOf(turn'.data)
                    ELSE fsm'[u].data.team_size = IntOf(turn'.data)
            ELSE /\ "invalid_number" \in turn'.answers
                 /\ fsm'[u] = fsm[u]]_vars
\* a number was sent at the max_teams step
C25_NumberAtMaxTeams ==
    \E u \in Visitors :
        /\ fsm[u].state = "waiting_for_max_teams"
        /\ turn.user = u /\ turn.kind = "text" /\ turn.data = "5"

\* C26: waiting_for_title is entered only from waiting_for_team_size, and
\* waiting_for_team_size only from waiting_for_max_teams, whatever the type.
C26_TitleOnlyAfterTeamSteps ==
    [][\A u \in Visitors :
         /\ (fsm'[u].state = "waiting_for_title" /\ fsm[u].state # "waiting_for_title")
               => fsm[u].state = "waiting_for_team_size"
         /\ (fsm'[u].state = "waiting_for_team_size" /\ fsm[u].state # "waiting_for_team_size")
               => fsm[u].state = "waiting_for_max_teams"]_vars
\* the flow of a party reached the title step
C26_PartyAtTitle ==
    \E u \in Visitors :
        /\ fsm[u].state = "waiting_for_title"
        /\ fsm[u].data.event_type = "party"

\* C36: a broadcast is fanned out only in a turn that starts with the
\* administrator's session in waiting_for_confirmation; an audience button
\* pressed after a cancel, or with no broadcast flow active, sends nothing.
C36_FanOutOnlyWhenConfirming ==
    [][Len(broadcasts') > Len(broadcasts) \/ (turn'.handler = "process_broadcast" /\ turn'.to # {})
         => fsm[ADMIN_ID].state = "waiting_for_confirmation"]_vars
\* the administrator cancelled a broadcast whose message was stored
C36_CancelledWithStoredMessage ==
    /\ turn.user = ADMIN_ID
    /\ turn.data = "broadcast_cancel"
    /\ turn.answers = {"broadcast_cancelled"}
    /\ broadcast_data # None
    /\ fsm[ADMIN_ID].state = None

\* C33: a text holding an event keyword is answered with the static
\* information whatever the sender's session state, and the turn changes
\* neither the session (state and data), nor the sender's row, nor the stored
\* broadcast message.
C33_KeywordReplyInAnyState ==
    [][\A u \in Visitors :
         (turn'.user = u /\ turn'.kind = "text" /\ turn'.data \in KeywordTexts)
         => /\ "events_info" \in turn'.answers
            /\ fsm'[u] = fsm[u]
            /\ FindUser(u) # 0 => users'[FindUser(u)] = users[FindUser(u)]
            /\ broadcast_data' = broadcast_data]_vars
\* a keyword text was sent while the name was awaited
C33_KeywordAtNameStep ==
    \E u \in Visitors :
        /\ turn.user = u /\ turn.kind = "text" /\ turn.data \in KeywordTexts
        /\ turn.handler = "process_name"

\* ------------------------------------------------------------ the relay
\* The administrator and one other user, both registered, write to each
\* other through the bot: the user's texts are relayed to the administrator,
\* the administrator replies (handle_user_message reads reply_to_message of
\* no other user).
Replies == {NoReply, UnknownTarget} \cup Visitors
RelayMessages == {TextMessage("Al"), TextMessage("x")}

InitRelay ==
    /\ users = Registered(MaxTgId)
    /\ calls = [c \in CallIds |-> IdleCall]
    /\ NoEvents
    /\ InitRest

NextRelay ==
    \E u \in {ADMIN_ID} \cup Visitors, m \in RelayMessages, ok \in BOOLEAN :
        \E reply \in IF u = ADMIN_ID THEN Replies ELSE {NoReply} :
            handle_user_message(u, m, reply, ok)

SpecRelay == InitRelay /\ [][NextRelay]_vars

\* C31: a registered user who is not the administrator gets message_received
\* on the first text of theirs that is relayed (none of their texts is yet in
\* the messages table) and on no later one, also when the relay of an earlier
\* text failed.
TextsOf(u) == {i \in DOMAIN messages : messages[i].is_from_user /\ messages[i].user_id = FindUser(u)}
C31_AckOnFirstMessageOnly ==
    [][\A u \in Visitors :
         (turn'.user = u /\ turn'.handler = "handle_user_message"
            /\ Len(messages') > Len(messages))
         => ("message_received" \in turn'.answers <=> TextsOf(u) = {})]_vars
\* the relay of the user's first text failed
C31_FirstRelayFailed ==
    \E u \in Visitors :
        /\ turn.user = u
        /\ turn.answers = {"error_occurred"}
        /\ Cardinality(TextsOf(u)) = 1

\* The event-creation flow with updates that keep arriving: the user goes on
\* sending messages and clicking buttons.
SpecCreateLive == SpecCreate /\ WF_vars(NextCreate)

\* C32: an event-creation flow completes: a session that awaits the title is
\* eventually cleared (the Event having been persisted).
C32_CreationCompletes ==
    \A u \in Visitors : (fsm[u].state = "waiting_for_title") ~> (fsm[u].state = None)
\* a text was sent while the title was awaited
C32_TitleSent ==
    \E u \in Visitors :
        /\ fsm[u].state = "waiting_for_title"
        /\ turn.user = u /\ turn.kind = "text" /\ turn.handler = "handle_user_message"

\* C34: no step adds a user to the participants of an event whose is_active is
\* false, and no step creates a payment for such an event.
C34_NoJoinOnCancelledEvent ==
    [][\A e \in EventIds :
         ~events[e].is_active
         => /\ participants'[e] \subseteq participants[e]
            /\ \A i \in DOMAIN payments' :
                  i \notin DOMAIN payments => payments'[i].event_id # e]_vars
\* a join was clicked on a cancelled event
C34_JoinClickedOnCancelled ==
    \E u \in Payers, e \in EventIds :
        /\ ~events[e].is_active
        /\ joins[u].pc = "got_event"
        /\ joins[u].event = e

C37_NoRedundantPendingPayment ==
    [][\A i \in DOMAIN payments' :
         i \notin DOMAIN payments
         => LET p == payments'[i]
            IN /\ ~EventFull(participants[p.event_id], events[p.event_id].max_participants)
               /\ \A j \in DOMAIN payments :
                     (payments[j].user_id = p.user_id /\ payments[j].event_id = p.event_id)
                     => payments[j].status \notin {"pending", "succeeded"}]_vars
\* a user with a pending payment for an event clicked join on it again
C37_SecondClickWhilePending ==
    \E u \in Payers, j \in DOMAIN payments :
        /\ joins[u].pc = "payment"
        /\ payments[j].user_id = FindUser(u)
        /\ payments[j].event_id = joins[u].event
        /\ payments[j].status = "pending"

\* C38: every row with registration_complete has a name of at least two
\* characters and a phone number, and registration_complete never goes from
\* true back to false, whatever is sent and however often the registration is
\* restarted with /start or a language button.
C38_RegisteredProfileIsComplete ==
    /\ [](\A i \in DOMAIN users :
            users[i].registration_complete
            => /\ users[i].real_name # None
               /\ TextLen(users[i].real_name) >= 2
               /\ users[i].phone_number # None)
    /\ [][\A i \in DOMAIN users :
            users[i].registration_complete => users'[i].registration_complete]_vars
\* a registered user restarted the registration and is asked for the name
C38_RegisteredRestarted ==
    \E u \in Visitors :
        /\ FindUser(u) # 0
        /\ users[FindUser(u)].registration_complete
        /\ fsm[u].state = "waiting_for_name"

\* C39: no reminder is delivered for an event whose is_active is false at the
\* moment of sending, however the sweep and a cancel turn interleave.
C39_NoReminderForCancelledEvent ==
    [][\A e \in EventIds :
         reminders'[e] # reminders[e] => events[e].is_active]_vars
\* an event was cancelled after the sweep selected it and before its
\* reminders went out
C39_CancelledWhileSelected ==
    \E e \in EventIds :
        /\ sweep.pc = "sending"
        /\ e \in sweep.due
        /\ ~events[e].is_active

\* C3: in every reachable state there is at most one persisted User row per
\* telegram id, and every row that a step adds has registration_complete
\* false and language "en".
OneRowPerTelegramId ==
    \A i, j \in DOMAIN users : users[i].telegram_id = users[j].telegram_id => i = j
NewRowDefaults ==
    \A i \in DOMAIN users' :
        i \notin DOMAIN users =>
            /\ users'[i].registration_complete = FALSE
            /\ users'[i].language = "en"
C3_AtMostOneRowPerId == []OneRowPerTelegramId /\ [][NewRowDefaults]_vars
\* Two calls for the same unknown id both passed the lookup, and one row exists.
C3_Witness ==
    /\ Len(users) = 1
    /\ calls[1].pc = "returned" /\ calls[2].pc = "raised"
    /\ calls[1].tid = calls[2].tid

\* C4: when two get_or_create calls for the same unknown id run in parallel,
\* neither ends in an error: the loser of the uniqueness conflict returns the
\* row the other inserted, so both return the same row.
C4_NoCallEndsInError ==
    \A c, d \in CallIds :
        (c # d /\ calls[c].tid = calls[d].tid /\ calls[c].pc = "returned"
           /\ calls[d].pc \in {"returned", "raised"})
        => (calls[d].pc = "returned" /\ calls[d].result = calls[c].result)
====
